---------------------------- MODULE Spec2Model ----------------------------
(***************************************************************************)
(* A model of src/index.tsx: the MathText segment parser (the `parts`      *)
(* memo) and the Dashboard component's session state (handleStudy, the     *)
(* history list, the current result and the quiz progress map).            *)
(*                                                                         *)
(* Strings that the code inspects character by character (the text given   *)
(* to MathText, the query box) are sequences of one-character strings.     *)
(* Indices follow JavaScript: they start at 0.                             *)
(***************************************************************************)
EXTENDS Integers, Sequences, FiniteSets, TLC

(***************************************************************************)
(* Bounds of the model.                                                    *)
(***************************************************************************)
MaxLen == 5

Alphabet == {"$", "*", "#", "a"}

VARIABLES
  text,          \* MathText: the `text` prop being parsed
  lastIndex,     \* MathText: `lastIndex` of the parts memo
  result,        \* MathText: `result`, the list of parts built so far
  pcParse,       \* MathText: position in the memo: "loop", "tail" or "done"
  activeMode,    \* Dashboard: useState<Mode>('explain')
  activeSubject, \* Dashboard: useState<Subject>('General')
  query,         \* Dashboard: useState('')
  isLoading,     \* Dashboard: useState(false)
  history,       \* Dashboard: useState<StudyResult[]>([])
  currentResult, \* Dashboard: useState<StudyResult | null>(null)
  quizProgress,  \* Dashboard: useState({}), question index -> entry
  inflight,      \* generateContent calls awaiting their response, oldest first
  clock,         \* Date.now(), counted in results created
  lastEvent,     \* observation: the handler that ran last, with its arguments
  flight         \* observation: the session as it was at the last accepted submit

parseVars == <<text, lastIndex, result, pcParse>>
dashVars == <<activeMode, activeSubject, query, isLoading, history,
              currentResult, quizProgress, inflight, clock, lastEvent, flight>>
vars == <<parseVars, dashVars>>

(***************************************************************************)
(* JavaScript string helpers.                                              *)
(***************************************************************************)
\* text.substring(a, b) for 0 <= a <= b <= text.length
Substring(t, a, b) == SubSeq(t, a + 1, b)

\* part.slice(k, -k): from index k up to, not including, index length - k;
\* empty when that range is empty
SliceBoth(part, k) == SubSeq(part, k + 1, Len(part) - k)

\* part.startsWith('$$')
StartsWithDollars(part) == Len(part) >= 2 /\ part[1] = "$" /\ part[2] = "$"

RECURSIVE CleanTextFirstOnly(_)
\* a replace without the g flag: only the first marker is removed
CleanTextFirstOnly(s) ==
  IF s = <<>> THEN <<>>
  ELSE IF Head(s) \in {"*", "#"} THEN Tail(s)
  ELSE <<Head(s)>> \o CleanTextFirstOnly(Tail(s))

RECURSIVE CleanText(_)
\* s.replace(/[*#]/g, '')
CleanText(s) ==
  IF s = <<>> THEN <<>>
  ELSE IF Head(s) \in {"*", "#"} THEN CleanText(Tail(s))
  ELSE <<Head(s)>> \o CleanText(Tail(s))

(***************************************************************************)
(* combinedRegex = /(\$\$[\s\S]+?\$\$|\$[\s\S]+?\$)/g                      *)
(* An attempt at index i tries the first alternative, and the second only  *)
(* when the first fails; a lazy [\s\S]+? takes at least one character (any *)
(* character, a dollar sign included) and stops at the first place where   *)
(* the closing delimiter matches.                                          *)
(***************************************************************************)
Min(S) == CHOOSE m \in S : \A n \in S : m <= n

\* indices j where a closing "$$" can start, for an opening "$$" at i
BlockCloses(t, i) ==
  {j \in (i + 3)..(Len(t) - 2) : t[j + 1] = "$" /\ t[j + 2] = "$"}

\* indices j of a closing "$", for an opening "$" at i
InlineCloses(t, i) ==
  {j \in (i + 2)..(Len(t) - 1) : t[j + 1] = "$"}

BlockAlternative(t, i) ==
  /\ i + 1 < Len(t)
  /\ t[i + 1] = "$" /\ t[i + 2] = "$"
  /\ BlockCloses(t, i) # {}

InlineAlternative(t, i) ==
  /\ i < Len(t)
  /\ t[i + 1] = "$"
  /\ InlineCloses(t, i) # {}

\* does the regex match starting exactly at index i
MatchesAt(t, i) == BlockAlternative(t, i) \/ InlineAlternative(t, i)

\* index just past the match that starts at i
MatchEnd(t, i) ==
  IF BlockAlternative(t, i) THEN Min(BlockCloses(t, i)) + 2
  ELSE Min(InlineCloses(t, i)) + 1

\* combinedRegex.exec(text) with combinedRegex.lastIndex = from:
\* the leftmost match at or after `from`, or null
MatchStarts(t, from) == {i \in from..(Len(t) - 1) : MatchesAt(t, i)}

Exec(t, from) ==
  IF MatchStarts(t, from) = {} THEN [found |-> FALSE, index |-> 0, end |-> 0]
  ELSE LET i == Min(MatchStarts(t, from))
       IN [found |-> TRUE, index |-> i, end |-> MatchEnd(t, i)]

(***************************************************************************)
(* The parts memo of MathText, one action per loop iteration.              *)
(***************************************************************************)
Strings == UNION {[1..n -> Alphabet] : n \in 0..MaxLen}

ParseInit ==
  /\ text \in Strings
  /\ lastIndex = 0
  /\ result = <<>>
  /\ pcParse = "loop"

\* the part pushed for a match: math-block when it starts with "$$"
MathPart(part) ==
  IF StartsWithDollars(part)
  THEN [type |-> "math-block", content |-> SliceBoth(part, 2)]
  ELSE [type |-> "math-inline", content |-> SliceBoth(part, 1)]

\* the text part pushed in front of a match, if any
LeadingText(t, from, index) ==
  IF index > from
  THEN <<[type |-> "text", content |-> CleanText(Substring(t, from, index))]>>
  ELSE <<>>

\* one iteration of while ((match = combinedRegex.exec(text)) !== null)
ParseLoop ==
  /\ pcParse = "loop"
  /\ LET m == Exec(text, lastIndex) IN
       IF m.found
       THEN /\ result' = result \o LeadingText(text, lastIndex, m.index)
                           \o <<MathPart(Substring(text, m.index, m.end))>>
            /\ lastIndex' = m.end
            /\ pcParse' = "loop"
       ELSE /\ pcParse' = "tail"
            /\ UNCHANGED <<result, lastIndex>>
  /\ UNCHANGED text

\* the text part pushed after the last match, if any
TrailingText(t, from) ==
  IF from < Len(t)
  THEN <<[type |-> "text", content |-> CleanText(Substring(t, from, Len(t)))]>>
  ELSE <<>>

\* if (lastIndex < text.length) { ... }  return result
ParseTail ==
  /\ pcParse = "tail"
  /\ result' = result \o TrailingText(text, lastIndex)
  /\ pcParse' = "done"
  /\ UNCHANGED <<text, lastIndex>>

\* the memo when there is nothing to parse: MathText is not mounted
ParseIdle ==
  /\ text = <<>>
  /\ lastIndex = 0
  /\ result = <<>>
  /\ pcParse = "done"

(***************************************************************************)
(* The Dashboard's data.                                                   *)
(***************************************************************************)
Modes == {"explain", "summarize", "practice"}

\* what the user can type into the query box
Queries == {<<>>, <<" ">>, <<"a">>}

RECURSIVE TrimLeft(_)
TrimLeft(s) ==
  IF s # <<>> /\ Head(s) = " " THEN TrimLeft(Tail(s)) ELSE s

RECURSIVE TrimRight(_)
TrimRight(s) ==
  IF s # <<>> /\ s[Len(s)] = " " THEN TrimRight(SubSeq(s, 1, Len(s) - 1)) ELSE s

\* query.trim()
Trim(s) == TrimRight(TrimLeft(s))

\* JavaScript's undefined where a number is expected, and null
Undefined == -2
Null == -1
NullResult == [isNull |-> TRUE]

\* a question of a response, with two options and the given correctAnswer
\* (Undefined: the field is missing)
Question(answer) ==
  [question |-> "q", options |-> <<"x", "y">>, correctAnswer |-> answer,
   explanation |-> "e", hint |-> "h"]

\* data.questions: missing from the payload, or a list
NoQuestions == [defined |-> FALSE, list |-> <<>>]
QuestionList(l) == [defined |-> TRUE, list |-> l]

\* the texts a response can carry: one that is no JSON, and JSON payloads with
\* a valid question list, no `questions`, an empty list, a question without
\* correctAnswer and a question whose correctAnswer is no index of its options
PlainText == [raw |-> "text", json |-> FALSE,
              data |-> [title |-> "", content |-> "", questions |-> NoQuestions]]

JsonText(raw, title, content, questions) ==
  [raw |-> raw, json |-> TRUE,
   data |-> [title |-> title, content |-> content, questions |-> questions]]

ValidQuiz == JsonText("valid", "T", "c", QuestionList(<<Question(1), Question(0)>>))

JsonTexts ==
  { ValidQuiz,
    JsonText("noQuestions", "", "", NoQuestions),
    JsonText("emptyQuestions", "T", "c", QuestionList(<<>>)),
    JsonText("noAnswer", "T", "c", QuestionList(<<Question(Undefined)>>)),
    JsonText("badAnswer", "T", "c", QuestionList(<<Question(2)>>)) }

\* JSON.parse(response.text): the decoded data, or a SyntaxError
JsonParse(t) == [ok |-> t.json, data |-> t.data]

\* a || b for strings: the empty string is falsy
OrElse(a, b) == IF a = "" THEN b ELSE a

\* the model, config and prompt handleStudy builds from the values it closes over
BuildRequest(mode, subject, topic) ==
  [model |-> IF mode = "explain" THEN "gemini-3-pro-preview"
             ELSE "gemini-3-flash-preview",
   systemInstructionSubject |-> subject,
   thinkingConfig |-> (mode = "explain"),
   responseSchema |-> (mode = "practice"),
   prompt |-> [topic |-> topic, mode |-> mode]]

\* what generateContent can answer: a rejection, a response without text, or a
\* response with text (JSON is only ever returned to a request that carries a
\* response schema)
Responses(request) ==
  {[kind |-> "error", text |-> PlainText], [kind |-> "empty", text |-> PlainText]}
  \cup {[kind |-> "text", text |-> t] :
          t \in IF request.responseSchema THEN {PlainText} \cup JsonTexts
                ELSE {PlainText}}

\* the StudyResult of the practice branch
PracticeResult(data, subject, now) ==
  [title |-> OrElse(data.title, "Practice Questions"),
   content |-> OrElse(data.content, ""),
   type |-> "practice",
   subject |-> subject,
   timestamp |-> now,
   practiceQuestions |-> data.questions]

\* the StudyResult of the other branch
TextResult(topic, raw, mode, subject, now) ==
  [title |-> topic,
   content |-> raw,
   type |-> mode,
   subject |-> subject,
   timestamp |-> now,
   practiceQuestions |-> NoQuestions]

Capacity == 15

\* a.slice(0, n)
SliceTo(a, n) == SubSeq(a, 1, IF n < Len(a) THEN n ELSE Len(a))

\* [result, ...prev].slice(0, 16): the list is cut one entry too late
PushOneTooMany(prev, r) == SliceTo(<<r>> \o prev, Capacity + 1)

\* setHistory(prev => [result, ...prev].slice(0, 15))
Push(prev, r) == SliceTo(<<r>> \o prev, Capacity)

(***************************************************************************)
(* The quiz progress map.                                                  *)
(***************************************************************************)
EmptyProgress == [k \in {} |-> [selected |-> 0, revealed |-> TRUE]]

\* quizProgress[qIdx]?.selected
Selected(p, q) == IF q \in DOMAIN p THEN p[q].selected ELSE Undefined

\* hasSelected: selected !== null && selected !== undefined
HasSelected(p, q) == Selected(p, q) # Null /\ Selected(p, q) # Undefined

\* the explanation block is rendered when selected !== null
ExplanationShown(p, q) == Selected(p, q) # Null

\* p => ({...p, [qIdx]: {selected: oIdx, revealed: true}})
WithSelection(p, q, o) ==
  [k \in DOMAIN p \cup {q} |->
     IF k = q THEN [selected |-> o, revealed |-> TRUE] ELSE p[k]]

\* the questions the page renders: none while loading, without a current
\* result, for a result of another type or without practiceQuestions
DisplayedQuestions ==
  IF /\ ~isLoading
     /\ currentResult # NullResult
     /\ currentResult.type = "practice"
     /\ currentResult.practiceQuestions.defined
  THEN currentResult.practiceQuestions.list
  ELSE <<>>

(***************************************************************************)
(* The Dashboard's handlers.                                               *)
(***************************************************************************)
Idle == [active |-> FALSE, currentResult |-> NullResult, history |-> <<>>,
         navigated |-> FALSE]

\* the observation of a navigation: it counts while a call is outstanding
Navigated == IF flight.active THEN [flight EXCEPT !.navigated = TRUE] ELSE flight

DashInit ==
  /\ activeMode = "explain"
  /\ activeSubject = "General"
  /\ query = <<>>
  /\ isLoading = FALSE
  /\ history = <<>>
  /\ currentResult = NullResult
  /\ quizProgress = EmptyProgress
  /\ inflight = <<>>
  /\ clock = 0
  /\ lastEvent = [op |-> "mount"]
  /\ flight = Idle

\* ModeButton onClick: setActiveMode(m)
SetMode(m) ==
  /\ activeMode' = m
  /\ lastEvent' = [op |-> "setMode"]
  /\ flight' = Navigated
  /\ UNCHANGED <<activeSubject, query, isLoading, history, currentResult,
                 quizProgress, inflight, clock>>

\* subject select onChange: setActiveSubject(s)
SetSubject(s) ==
  /\ activeSubject' = s
  /\ lastEvent' = [op |-> "setSubject"]
  /\ flight' = Navigated
  /\ UNCHANGED <<activeMode, query, isLoading, history, currentResult,
                 quizProgress, inflight, clock>>

\* query input onChange: setQuery(q)
SetQuery(q) ==
  /\ query' = q
  /\ lastEvent' = [op |-> "setQuery"]
  /\ UNCHANGED <<activeMode, activeSubject, isLoading, history, currentResult,
                 quizProgress, inflight, clock, flight>>

\* a guard that forgets the busy flag
SubmitRejectedEmptyOnly(q, loading) == Trim(q) = <<>>

\* if (!query.trim() || isLoading) return;
SubmitRejected(q, loading) == Trim(q) = <<>> \/ loading

\* handleStudy up to the await: the form's onSubmit
Submit ==
  /\ IF SubmitRejected(query, isLoading)
     THEN UNCHANGED <<isLoading, inflight, flight>>
     ELSE /\ isLoading' = TRUE
          /\ inflight' = Append(inflight,
                 [mode |-> activeMode, subject |-> activeSubject, query |-> query,
                  request |-> BuildRequest(activeMode, activeSubject, query)])
          /\ flight' = [active |-> TRUE, currentResult |-> currentResult,
                        history |-> history, navigated |-> FALSE]
  /\ lastEvent' = [op |-> "submit", busy |-> isLoading]
  /\ UNCHANGED <<activeMode, activeSubject, query, history, currentResult,
                 quizProgress, clock>>

\* a check that lets a response without text through
HasTextUnlessRejected(r) == r.kind # "error"

\* the call resolved and response.text is truthy
HasText(r) == r.kind = "text"

\* a practice branch that swallows the SyntaxError of JSON.parse
OutcomeIgnoresParseError(c, r) ==
  IF r.kind = "error" THEN "failed"
  ELSE IF ~HasText(r) THEN "empty"
  ELSE "success"

\* how handleStudy leaves its try block for call c on response r
Outcome(c, r) ==
  IF r.kind = "error" THEN "failed"
  ELSE IF ~HasText(r) THEN "empty"
  ELSE IF c.mode = "practice" /\ ~JsonParse(r.text).ok THEN "malformed"
  ELSE "success"

\* a handleStudy that reads the mode, subject and query of the moment the
\* response arrives (as through a ref) instead of the values it closed over
BuiltResultFromLiveState(c, r, now) ==
  IF activeMode = "practice"
  THEN PracticeResult(JsonParse(r.text).data, activeSubject, now)
  ELSE TextResult(query, r.text.raw, activeMode, activeSubject, now)

\* the result handleStudy builds when it reaches setCurrentResult
BuiltResult(c, r, now) ==
  IF c.mode = "practice"
  THEN PracticeResult(JsonParse(r.text).data, c.subject, now)
  ELSE TextResult(c.query, r.text.raw, c.mode, c.subject, now)

Remove(s, i) == SubSeq(s, 1, i - 1) \o SubSeq(s, i + 1, Len(s))

\* handleStudy after the await with setIsLoading(false) at the end of the try
\* block instead of in a finally: a failure leaves the busy flag set
SettleWithoutFinally(i, r) ==
  /\ i \in 1..Len(inflight)
  /\ LET c == inflight[i]
         outcome == Outcome(c, r)
         built == BuiltResult(c, r, clock + 1)
     IN /\ r \in Responses(c.request)
        /\ IF outcome = "success"
           THEN /\ currentResult' = built
                /\ history' = Push(history, built)
                /\ quizProgress' = EmptyProgress
                /\ query' = <<>>
                /\ clock' = clock + 1
                /\ isLoading' = FALSE
           ELSE UNCHANGED <<currentResult, history, quizProgress, query, clock,
                            isLoading>>
        /\ lastEvent' = [op |-> "settle", response |-> r.kind,
                         text |-> r.text.raw, outcome |-> outcome]
  /\ inflight' = Remove(inflight, i)
  /\ flight' = Idle
  /\ UNCHANGED <<activeMode, activeSubject>>

\* handleStudy after the await, for the i-th outstanding call and response r
Settle(i, r) ==
  /\ i \in 1..Len(inflight)
  /\ LET c == inflight[i]
         outcome == Outcome(c, r)
         built == BuiltResult(c, r, clock + 1)
     IN /\ r \in Responses(c.request)
        /\ IF outcome = "success"
           THEN /\ currentResult' = built
                /\ history' = Push(history, built)
                /\ quizProgress' = EmptyProgress
                /\ query' = <<>>
                /\ clock' = clock + 1
           ELSE UNCHANGED <<currentResult, history, quizProgress, query, clock>>
        /\ lastEvent' = [op |-> "settle", response |-> r.kind,
                         text |-> r.text.raw, outcome |-> outcome]
  /\ isLoading' = FALSE
  /\ inflight' = Remove(inflight, i)
  /\ flight' = Idle
  /\ UNCHANGED <<activeMode, activeSubject>>

\* NavItem "Dashboard" onClick: setCurrentResult(null)
GoDashboard ==
  /\ currentResult' = NullResult
  /\ lastEvent' = [op |-> "dashboard"]
  /\ flight' = Navigated
  /\ UNCHANGED <<activeMode, activeSubject, query, isLoading, history,
                 quizProgress, inflight, clock>>

\* history entry onClick: setCurrentResult(h), h the entry at index i
HistoryClick(i) ==
  /\ i \in 0..(Len(history) - 1)
  /\ currentResult' = history[i + 1]
  /\ lastEvent' = [op |-> "history", index |-> i]
  /\ flight' = Navigated
  /\ UNCHANGED <<activeMode, activeSubject, query, isLoading, history,
                 quizProgress, inflight, clock>>

\* an option button without its disabled attribute
ClickOptionNeverDisabled(q, o) ==
  /\ q \in 0..(Len(DisplayedQuestions) - 1)
  /\ o \in 0..(Len(DisplayedQuestions[q + 1].options) - 1)
  /\ quizProgress' = WithSelection(quizProgress, q, o)
  /\ lastEvent' = [op |-> "option", question |-> q, option |-> o,
                   disabled |-> HasSelected(quizProgress, q)]
  /\ UNCHANGED <<activeMode, activeSubject, query, isLoading, history,
                 currentResult, inflight, clock, flight>>

\* option button of question q, option o: disabled once the question has a
\* selection, else setQuizProgress(p => ({...p, [qIdx]: {...}}))
ClickOption(q, o) ==
  /\ q \in 0..(Len(DisplayedQuestions) - 1)
  /\ o \in 0..(Len(DisplayedQuestions[q + 1].options) - 1)
  /\ quizProgress' = IF HasSelected(quizProgress, q) THEN quizProgress
                     ELSE WithSelection(quizProgress, q, o)
  /\ lastEvent' = [op |-> "option", question |-> q, option |-> o,
                   disabled |-> HasSelected(quizProgress, q)]
  /\ UNCHANGED <<activeMode, activeSubject, query, isLoading, history,
                 currentResult, inflight, clock, flight>>

(***************************************************************************)
(* Specifications.                                                         *)
(***************************************************************************)
\* The session with every mode and response and the subject left at General,
\* until MaxResults results exist: from then on generateContent only fails.
MaxResults == 1

Init == ParseIdle /\ DashInit

Next ==
  /\ \/ \E m \in Modes : SetMode(m)
     \/ SetSubject("General")
     \/ \E q \in Queries : SetQuery(q)
     \/ Submit
     \/ \E i \in 1..Len(inflight) : \E r \in Responses(inflight[i].request) :
          /\ Outcome(inflight[i], r) = "success" => clock < MaxResults
          /\ Settle(i, r)
     \/ GoDashboard
     \/ \E i \in 0..(Len(history) - 1) : HistoryClick(i)
     \/ \E q \in 0..1 : \E o \in 0..1 : ClickOption(q, o)
  /\ UNCHANGED parseVars

Spec == Init /\ [][Next]_vars

\* The session when the external call always settles in the end: an
\* outstanding call is not left without a response forever. The responses are
\* a rejection, one without text, text that is no JSON and the valid quiz.
SettlingResponses(request) ==
  {[kind |-> "error", text |-> PlainText], [kind |-> "empty", text |-> PlainText],
   [kind |-> "text", text |-> PlainText]}
  \cup (IF request.responseSchema THEN {[kind |-> "text", text |-> ValidQuiz]}
        ELSE {})

\* generateContent settles: some outstanding call gets its response
Respond ==
  /\ \E i \in 1..Len(inflight) : \E r \in SettlingResponses(inflight[i].request) :
       /\ Outcome(inflight[i], r) = "success" => clock < MaxResults
       /\ Settle(i, r)
  /\ UNCHANGED parseVars

UserStep ==
  /\ \/ \E m \in Modes : SetMode(m)
     \/ SetSubject("General")
     \/ \E q \in Queries : SetQuery(q)
     \/ Submit
     \/ GoDashboard
     \/ \E i \in 0..(Len(history) - 1) : HistoryClick(i)
     \/ \E q \in 0..1 : \E o \in 0..1 : ClickOption(q, o)
  /\ UNCHANGED parseVars

NextSettling == UserStep \/ Respond

SpecSettling == Init /\ [][NextSettling]_vars /\ WF_vars(Respond)

\* The session with two subjects and two query texts, so that the mode, the
\* subject and the query can all change while a call is outstanding; the
\* responses are those of SettlingResponses, and no quiz option is clicked.
Subjects == {"General", "Mathematics"}

RequestQueries == {<<>>, <<"a">>, <<"b">>}

NextRequest ==
  /\ \/ \E m \in Modes : SetMode(m)
     \/ \E s \in Subjects : SetSubject(s)
     \/ \E q \in RequestQueries : SetQuery(q)
     \/ Submit
     \/ \E i \in 1..Len(inflight) : \E r \in SettlingResponses(inflight[i].request) :
          /\ Outcome(inflight[i], r) = "success" => clock < MaxResults
          /\ Settle(i, r)
     \/ GoDashboard
     \/ \E i \in 0..(Len(history) - 1) : HistoryClick(i)
  /\ UNCHANGED parseVars

SpecRequest == Init /\ [][NextRequest]_vars

\* A long session, to fill the history past its capacity: one subject, the
\* modes explain and practice, responses that fail or are well-formed, clicks
\* on the newest and the oldest history entry; practice requests succeed only
\* for the first MaxQuizzes results, and every request fails once MaxPushes
\* results exist.
MaxPushes == 16
MaxQuizzes == 1

HistoryResponses(request) ==
  {[kind |-> "error", text |-> PlainText],
   [kind |-> "text", text |-> IF request.responseSchema THEN ValidQuiz ELSE PlainText]}

NextHistory ==
  /\ \/ \E m \in {"explain", "practice"} : SetMode(m)
     \/ SetSubject("General")
     \/ \E q \in {<<>>, <<"a">>} : SetQuery(q)
     \/ Submit
     \/ \E i \in 1..Len(inflight) : \E r \in HistoryResponses(inflight[i].request) :
          /\ Outcome(inflight[i], r) = "success" =>
                /\ clock < MaxPushes
                /\ inflight[i].mode = "practice" => clock < MaxQuizzes
          /\ Settle(i, r)
     \/ GoDashboard
     \/ \E i \in {0, Len(history) - 1} : HistoryClick(i)
     \/ \E q \in 0..1 : \E o \in 0..1 : ClickOption(q, o)
  /\ UNCHANGED parseVars

SpecHistory == Init /\ [][NextHistory]_vars

\* the parser, on every string over Alphabet of at most MaxLen characters
InitParse == ParseInit /\ DashInit

NextParse == (ParseLoop \/ ParseTail) /\ UNCHANGED dashVars

SpecParse == InitParse /\ [][NextParse]_vars

(***************************************************************************)
(* The Dashboard: quiz progress.                                           *)
(***************************************************************************)
SettledWith(e, outcomes) == e.op = "settle" /\ e.outcome \in outcomes

\* C1: once a question has a recorded selection, no later click on an option
\* of that question, and no other step short of the reset by a successful
\* query, changes the recorded selection.
C1_AtMostOneAnswer ==
  [][~SettledWith(lastEvent', {"success"}) =>
       \A q \in DOMAIN quizProgress :
          /\ q \in DOMAIN quizProgress'
          /\ quizProgress'[q] = quizProgress[q]]_vars

\* an option of an answered question was clicked, another than the recorded one
C1_Witness ==
  /\ lastEvent.op = "option"
  /\ lastEvent.disabled
  /\ lastEvent.question \in DOMAIN quizProgress
  /\ quizProgress[lastEvent.question].selected # lastEvent.option

\* C2, as claimed: right after the current result changed, by a successful
\* query or by a click on a history entry (the displayed one included), the
\* quiz progress is empty.
C2_ResetOnResultChange ==
  (SettledWith(lastEvent, {"success"}) \/ lastEvent.op = "history") =>
    quizProgress = EmptyProgress

\* C3, as claimed: a displayed question shows its explanation if and only if
\* it has a recorded selection.
C3_RevealIffSelected ==
  \A q \in 0..(Len(DisplayedQuestions) - 1) :
     ExplanationShown(quizProgress, q) <=> q \in DOMAIN quizProgress

(***************************************************************************)
(* The Dashboard: queries.                                                 *)
(***************************************************************************)
\* C4: at most one generation call is outstanding, and a submit while the busy
\* flag is set starts no call and changes no state of the Dashboard.
C4_SingleFlight ==
  /\ [](Len(inflight) <= 1)
  /\ [][(lastEvent'.op = "submit" /\ isLoading) =>
          UNCHANGED <<activeMode, activeSubject, query, isLoading, history,
                      currentResult, quizProgress, inflight, clock>>]_vars

\* a submit of a non-empty query was attempted while a call was outstanding
C4_Witness ==
  /\ lastEvent.op = "submit"
  /\ lastEvent.busy
  /\ Trim(query) # <<>>
  /\ isLoading
  /\ Len(inflight) = 1

RespondedWith(e, kinds) == e.op = "settle" /\ e.response \in kinds

\* C5, as claimed: when the call fails or its response is empty, the current
\* result and the history after the query settled are what they were when the
\* query was submitted, and no call is issued again.
C5_FailureRestoresSubmitState ==
  [][RespondedWith(lastEvent', {"error", "empty"}) =>
       /\ currentResult' = flight.currentResult
       /\ history' = flight.history
       /\ inflight' = <<>>]_vars

\* C5, amended: when the call fails or its response is empty, the settling
\* step changes neither the current result nor the history and issues no call;
\* the history is what it was at the submit, and so is the current result
\* unless the user changed it while the call was outstanding.
C5_FailureChangesNothing ==
  [][RespondedWith(lastEvent', {"error", "empty"}) =>
       /\ currentResult' = currentResult
       /\ history' = history
       /\ history' = flight.history
       /\ ~flight.navigated => currentResult' = flight.currentResult
       /\ inflight' = <<>>
       /\ ~isLoading']_vars

\* a call just failed or came back empty, in a session that shows a result
C5_Witness ==
  /\ RespondedWith(lastEvent, {"error", "empty"})
  /\ history # <<>>
  /\ currentResult # NullResult

ValidQuestion(q) ==
  /\ Len(q.options) >= 2
  /\ q.correctAnswer \in 0..(Len(q.options) - 1)

ValidResult(r) ==
  /\ r.practiceQuestions.defined <=> r.type = "practice"
  /\ r.practiceQuestions.defined =>
       /\ r.practiceQuestions.list # <<>>
       /\ \A i \in 1..Len(r.practiceQuestions.list) :
            ValidQuestion(r.practiceQuestions.list[i])

\* C6, as claimed: every result that is current or in the history has
\* questions exactly when its mode is practice, at least one of them, each
\* with a correctAnswer that is an index of its options.
C6_OnlyValidResultsStored ==
  /\ currentResult # NullResult => ValidResult(currentResult)
  /\ \A i \in 1..Len(history) : ValidResult(history[i])

FirstEntries(s, n) == [i \in 1..(IF n < Len(s) THEN n ELSE Len(s)) |-> s[i]]

\* C7: the history never holds more than 15 results; a successful query makes
\* it the new result followed by the first 14 entries it had, and no other
\* step changes it.
C7_HistoryBounded ==
  /\ [](Len(history) <= 15)
  /\ [][IF SettledWith(lastEvent', {"success"})
        THEN /\ history' # <<>>
             /\ history'[1].timestamp = clock'
             /\ \A i \in 1..Len(history) : history[i].timestamp < clock'
             /\ Tail(history') = FirstEntries(history, 14)
        ELSE history' = history]_vars

\* the 16th result was just pushed: the history holds results 16 down to 2
C7_Witness ==
  /\ SettledWith(lastEvent, {"success"})
  /\ clock = 16
  /\ Len(history) = 15
  /\ history[1].timestamp = 16
  /\ history[15].timestamp = 2

\* C8, as claimed: a response that arrives after the user navigated away
\* during the call changes neither the current result nor the history.
C8_StaleResponseDiscarded ==
  [][(lastEvent'.op = "settle" /\ flight.navigated) =>
       /\ currentResult' = currentResult
       /\ history' = history]_vars

\* C11: the busy flag is set exactly while a generation call is outstanding;
\* the step in which the call settles, whatever its outcome, clears the flag;
\* a submit of a non-empty query with the flag clear is accepted; and, the
\* external call settling in the end, a set flag is always cleared later.
C11_BusyFollowsCall ==
  /\ [](isLoading <=> inflight # <<>>)
  /\ [][lastEvent'.op = "settle" => (~isLoading' /\ inflight' = <<>>)]_vars
  /\ [][(lastEvent'.op = "submit" /\ ~isLoading /\ Trim(query) # <<>>) =>
          (isLoading' /\ Len(inflight') = 1)]_vars
  /\ (isLoading ~> ~isLoading)

\* a second query was just accepted, after the call of a first one settled
C11_Witness ==
  /\ lastEvent.op = "submit"
  /\ ~lastEvent.busy
  /\ isLoading
  /\ Len(inflight) = 1
  /\ clock >= 1

\* the response text with the given raw form
TextOf(raw) == CHOOSE t \in {PlainText} \cup JsonTexts : t.raw = raw

\* a response of this kind and text can be decoded for a request of this mode
Decodable(mode, kind, raw) ==
  kind = "text" /\ (mode = "practice" => TextOf(raw).json)

\* C12: a settling query changes the current result and the history only when
\* its response can be decoded, and then both in the same step: the new
\* result is the current result and the head of the history; otherwise
\* neither changes.
C12_AtomicSuccess ==
  [][lastEvent'.op = "settle" =>
       IF Decodable(inflight[1].mode, lastEvent'.response, lastEvent'.text)
       THEN /\ clock' = clock + 1
            /\ currentResult' # NullResult
            /\ currentResult'.timestamp = clock'
            /\ history' # <<>>
            /\ history'[1] = currentResult'
       ELSE /\ currentResult' = currentResult
            /\ history' = history]_vars

\* a practice query just succeeded on the valid quiz: the result it built is
\* the current result and the head of the history
C12_Witness ==
  /\ SettledWith(lastEvent, {"success"})
  /\ lastEvent.text = "valid"
  /\ currentResult # NullResult
  /\ currentResult.type = "practice"
  /\ history # <<>>
  /\ history[1].timestamp = currentResult.timestamp
  /\ currentResult.timestamp = clock

StoredResults == {history[i] : i \in 1..Len(history)}
                   \cup (IF currentResult = NullResult THEN {} ELSE {currentResult})

\* C13: the call of an accepted submit carries the mode, subject and query of
\* that moment and the request built from them; nothing the user does while
\* the call is outstanding changes them; the response is decoded as the
\* submit-time mode says (structured for practice, free text otherwise) and
\* the stored result is labelled with the submit-time mode and subject and,
\* outside practice, titled with the submit-time query. So a stored result
\* has questions only if its mode is practice.
C13_ParametersFixedAtSubmit ==
  /\ [][(lastEvent'.op = "submit" /\ ~isLoading /\ Trim(query) # <<>>) =>
          /\ Len(inflight') = 1
          /\ inflight'[1].mode = activeMode
          /\ inflight'[1].subject = activeSubject
          /\ inflight'[1].query = query
          /\ inflight'[1].request.prompt = [topic |-> query, mode |-> activeMode]
          /\ inflight'[1].request.systemInstructionSubject = activeSubject
          /\ inflight'[1].request.responseSchema = (activeMode = "practice")]_vars
  /\ [][lastEvent'.op \notin {"submit", "settle"} => inflight' = inflight]_vars
  /\ [][(lastEvent'.op = "settle" /\ lastEvent'.response = "text") =>
          LET c == inflight[1]
              t == TextOf(lastEvent'.text)
          IN IF c.mode = "practice"
             THEN IF t.json
                  THEN /\ currentResult'.timestamp = clock + 1
                       /\ currentResult'.type = "practice"
                       /\ currentResult'.subject = c.subject
                       /\ currentResult'.practiceQuestions = t.data.questions
                  ELSE currentResult' = currentResult /\ history' = history
             ELSE /\ currentResult'.timestamp = clock + 1
                  /\ currentResult'.type = c.mode
                  /\ currentResult'.subject = c.subject
                  /\ currentResult'.title = c.query
                  /\ currentResult'.content = t.raw
                  /\ ~currentResult'.practiceQuestions.defined]_vars
  /\ [](\A r \in StoredResults :
          r.practiceQuestions.defined => r.type = "practice")

\* a practice query for General just succeeded, after the user had switched
\* to explain and to Mathematics while its call was outstanding
C13_Witness ==
  /\ SettledWith(lastEvent, {"success"})
  /\ currentResult # NullResult
  /\ currentResult.timestamp = clock
  /\ currentResult.type = "practice"
  /\ currentResult.subject = "General"
  /\ currentResult.practiceQuestions.defined
  /\ activeMode = "explain"
  /\ activeSubject = "Mathematics"

(***************************************************************************)
(* MathText: the segments against the input.                               *)
(***************************************************************************)
RECURSIVE Rewrap(_)
\* the parts joined in order, math parts wrapped in their delimiters again
Rewrap(ps) ==
  IF ps = <<>> THEN <<>>
  ELSE LET p == Head(ps)
           d == IF p.type = "math-block" THEN <<"$", "$">>
                ELSE IF p.type = "math-inline" THEN <<"$">>
                ELSE <<>>
       IN d \o p.content \o d \o Rewrap(Tail(ps))

IsMarker(c) == c \in {"*", "#"}
NotMarker(c) == ~IsMarker(c)
WithoutMarkers(s) == SelectSeq(s, NotMarker)

RECURSIVE StrippedOutsideMath(_, _)
\* the input from index `from` on, with the markers removed from the spans
\* that no delimiter pair encloses
StrippedOutsideMath(t, from) ==
  LET m == Exec(t, from) IN
    IF m.found
    THEN WithoutMarkers(Substring(t, from, m.index))
           \o Substring(t, m.index, m.end)
           \o StrippedOutsideMath(t, m.end)
    ELSE WithoutMarkers(Substring(t, from, Len(t)))

\* C9, as claimed: for every input, the parsed segments joined in order, with
\* inline math wrapped in $...$ and block math in $$...$$, are the input with
\* '*' and '#' removed from the non-math spans only.
C9_SegmentationCoverage ==
  pcParse = "done" => Rewrap(result) = StrippedOutsideMath(text, 0)

HasNoDollar(t) == \A i \in 1..Len(t) : t[i] # "$"

\* C10, as claimed: for every input without '$', the empty string included,
\* parse returns exactly one segment, a text segment whose content is the
\* input without its '*' and '#'.
C10_PlainTextOneSegment ==
  (pcParse = "done" /\ HasNoDollar(text)) =>
    result = <<[type |-> "text", content |-> WithoutMarkers(text)]>>

\* C10, amended: for every non-empty input without '$', parse returns exactly
\* one segment, a text segment whose content is the input without its '*' and
\* '#'; for the empty input it returns no segment.
C10_PlainText ==
  (pcParse = "done" /\ HasNoDollar(text)) =>
    IF text = <<>> THEN result = <<>>
    ELSE result = <<[type |-> "text", content |-> WithoutMarkers(text)]>>

\* a parsed input without '$' that has two markers and a letter between them
C10_Witness ==
  /\ pcParse = "done"
  /\ text = <<"*", "a", "#">>
  /\ result = <<[type |-> "text", content |-> <<"a">>]>>

=============================================================================
